---- MODULE Spec2Model ----
(***************************************************************************)
(* Model of the Gmail email scorer (main.py, config.py).                   *)
(*                                                                         *)
(* Numbers.  Every Python float of the program is kept in tenths: 8.0 is   *)
(* 80, 0.6 is 6, 0.1 is 1.  A float is a record [nan, v] so that the IEEE  *)
(* not-a-number that json.loads and float() can produce has its own value  *)
(* and its own comparison rules (every comparison with it is false).       *)
(*                                                                         *)
(* Text.  A completion is a sequence of lexical tokens: the markers the    *)
(* interpreter searches for (the think tags, the two code fences, braces), *)
(* whitespace, prose, and JSON object members.  A member token stands for  *)
(* one "key": value member together with the comma that separates it from  *)
(* its neighbour.  Every token is at least one character long, so          *)
(* comparisons of token positions agree with comparisons of the character  *)
(* offsets str.find and str.rfind return.                                  *)
(***************************************************************************)
EXTENDS Integers, Sequences, FiniteSets, TLC

VARIABLES
    completion,            \* outcome of client.chat.completions.create
    score,                 \* the EmailScore of the message in hand
    phase,                 \* position of the scoring of one message
    attempted,             \* apply_label calls made for the message in hand,
                           \* each with the value it returned
    labels_applied,        \* list returned by _apply_scoring_labels
    config,                \* config.py thresholds as loaded
    labels,                \* GmailManager.labels: the label names with an id
    email_scores,          \* table email_scores, in insertion order
    processing_state,      \* table processing_state, key "last_processed"
    mailbox,               \* labels each message carries in Gmail
    emails,                \* list fetched by the current run
    idx,                   \* position of the per-message loop
    pc,                    \* position of process_emails
    skip_processed_emails, \* EmailScoringSystem.skip_processed_emails
    handled,               \* what the loop did with each fetched message
    now,                   \* datetime.now()
    run_start,             \* value of now when the current run started
    runs,                  \* process_emails calls made so far
    stats                  \* outcome of the last get_performance_stats call

vars == <<completion, score, phase, attempted, labels_applied, config,
          labels, email_scores, processing_state, mailbox, emails, idx, pc,
          skip_processed_emails, handled, now, run_start, runs, stats>>

scoreVars == <<completion, score, phase, attempted, labels_applied, config>>

systemVars == <<labels, email_scores, processing_state, mailbox, emails, idx, pc,
                skip_processed_emails, handled, now, run_start, runs, stats>>

----------------------------------------------------------------------------
(* Bounds of the model.                                                    *)

MaxSegs == 4       \* segments of an enumerated completion text
MaxEmails == 2     \* messages one fetch returns
MaxTime == 1       \* ticks of the clock
MaxRuns == 1       \* calls of process_emails by one invocation of main

----------------------------------------------------------------------------
(* JSON values and Python floats.                                          *)

JNum(n) == [ty |-> "num", n |-> n, s |-> ""]
JNumStr(n) == [ty |-> "numstr", n |-> n, s |-> ""]
JStr(s) == [ty |-> "str", n |-> 0, s |-> s]
JNull == [ty |-> "null", n |-> 0, s |-> ""]
JNaN == [ty |-> "nan", n |-> 0, s |-> ""]

Flt(n) == [nan |-> FALSE, v |-> n]
NaN == [nan |-> TRUE, v |-> 0]

\* a >= b and a < b on floats: false as soon as one side is not-a-number
Ge(a, b) == ~a.nan /\ ~b.nan /\ a.v >= b.v
Lt(a, b) == ~a.nan /\ ~b.nan /\ a.v < b.v

\* float(x) raises TypeError on None and ValueError on a non-numeric string
FloatRaises(x) == x.ty \in {"null", "str"}

\* float(x) of a number, of the literal NaN, or of a numeric string
ToFloat(x) == IF x.ty = "nan" THEN NaN ELSE Flt(x.n)

----------------------------------------------------------------------------
(* Tokens.                                                                 *)

Sym(k) == [t |-> "sym", k |-> k, v |-> JNull]
Member(k, v) == [t |-> "pair", k |-> k, v |-> v]

THINK_OPEN == Sym("<think>")
THINK_CLOSE == Sym("</think>")
\* the opening fence tagged json: three backquotes followed by json
FENCE_JSON == Sym("fence-json")
\* a bare fence: three backquotes
FENCE == Sym("fence")
LBRACE == Sym("{")
RBRACE == Sym("}")
WS == Sym(" ")
PROSE == Sym("prose")
\* the key and colon of a member whose value is a nested object
OBJKEY == Sym("meta:")

\* a search for the bare fence also hits the start of the json fence
HasFence(tok) == tok \in {FENCE, FENCE_JSON}

Min(S) == CHOOSE x \in S : \A y \in S : x <= y
Max(S) == CHOOSE x \in S : \A y \in S : x >= y

\* str.strip()
strip(text) ==
    LET keep == {i \in 1..Len(text) : text[i] # WS}
    IN  IF keep = {} THEN <<>> ELSE SubSeq(text, Min(keep), Max(keep))

----------------------------------------------------------------------------
(* EmailScorer.score_email: interpretation of the completion.              *)

Has(text, tok) == \E i \in 1..Len(text) : text[i] = tok

\* s.find(tok), as the position of the first such token
find(text, tok) == Min({i \in 1..Len(text) : text[i] = tok})

\* s.find and s.rfind of the bare fence
findFence(text) == Min({i \in 1..Len(text) : HasFence(text[i])})
rfindFence(text) == Max({i \in 1..Len(text) : HasFence(text[i])})

\* s[start:end] with start the position of the first token kept and end the
\* position of the first token dropped
Slice(text, start, end) == SubSeq(text, start, end - 1)

\* The removal of the thinking block had it cut at the last closing tag
RemoveThinkingToLastClose(text) ==
    IF Has(text, THINK_OPEN) /\ Has(text, THINK_CLOSE)
    THEN LET think_end ==
                 Max({i \in 1..Len(text) : text[i] = THINK_CLOSE}) + 1
         IN  strip(Slice(text, think_end, Len(text) + 1))
    ELSE text

\* "Remove Qwen thinking tags if present"
RemoveThinking(text) ==
    IF Has(text, THINK_OPEN) /\ Has(text, THINK_CLOSE)
    THEN LET think_end == find(text, THINK_CLOSE) + 1
         IN  strip(Slice(text, think_end, Len(text) + 1))
    ELSE text

\* "Remove markdown code blocks"
RemoveCodeBlocks(text) ==
    IF Has(text, FENCE_JSON)
    THEN LET start == find(text, FENCE_JSON) + 1
             end == rfindFence(text)
         IN  IF end > start THEN strip(Slice(text, start, end)) ELSE text
    ELSE IF Has(text, FENCE)
    THEN LET start == findFence(text) + 1
             end == rfindFence(text)
         IN  IF end > start THEN strip(Slice(text, start, end)) ELSE text
    ELSE text

\* The regular expression \{[^{}]*(?:\{[^{}]*\}[^{}]*)*\} tried at one
\* position: the scan from a "{" through at most one level of inner braces
\* to the "}" that closes it.  The result is the position of that "}", or 0
\* when the expression does not match there.
RECURSIVE ScanBraces(_, _, _)
ScanBraces(text, i, depth) ==
    IF i > Len(text) THEN 0
    ELSE IF text[i] = LBRACE
         THEN IF depth = 1 THEN ScanBraces(text, i + 1, 2) ELSE 0
    ELSE IF text[i] = RBRACE
         THEN IF depth = 2 THEN ScanBraces(text, i + 1, 1) ELSE i
    ELSE ScanBraces(text, i + 1, depth)

MatchEnd(text, p) ==
    IF text[p] = LBRACE THEN ScanBraces(text, p + 1, 1) ELSE 0

\* re.findall(json_pattern, json_text)[0]: the leftmost match, or <<>> when
\* findall returns the empty list
FirstJsonMatch(text) ==
    LET starts == {p \in 1..Len(text) : MatchEnd(text, p) # 0}
    IN  IF starts = {} THEN <<>>
        ELSE SubSeq(text, Min(starts), MatchEnd(text, Min(starts)))

\* The tokens of an object text between its outer braces
Body(obj) == SubSeq(obj, 2, Len(obj) - 1)

\* number of inner "{" not yet closed before position i of a body
InnerDepth(body, i) ==
    Cardinality({j \in 1..(i - 1) : body[j] = LBRACE})
      - Cardinality({j \in 1..(i - 1) : body[j] = RBRACE})

PrevToken(body, i) ==
    LET before == {j \in 1..(i - 1) : body[j] # WS}
    IN  IF before = {} THEN WS ELSE body[Max(before)]

NextToken(body, i) ==
    LET after == {j \in (i + 1)..Len(body) : body[j] # WS}
    IN  IF after = {} THEN WS ELSE body[Min(after)]

\* json.loads raises JSONDecodeError unless the text is an object whose
\* body holds only members, whitespace and keyed nested objects
JsonDecodeError(obj) ==
    LET body == Body(obj)
    IN  \E i \in 1..Len(body) :
            \/ body[i].t = "sym" /\ body[i] \notin {WS, OBJKEY, LBRACE, RBRACE}
            \/ body[i] = OBJKEY /\ NextToken(body, i) # LBRACE
            \/ body[i] = LBRACE /\ PrevToken(body, i) # OBJKEY
            \/ body[i] = OBJKEY /\ InnerDepth(body, i) # 0

\* json.loads: the members of the outer object, in their order in the text
RECURSIVE CollectMembers(_, _)
CollectMembers(body, i) ==
    IF i > Len(body) THEN <<>>
    ELSE (IF body[i].t = "pair" /\ InnerDepth(body, i) = 0
          THEN <<body[i]>> ELSE <<>>) \o CollectMembers(body, i + 1)

json_loads(obj) == CollectMembers(Body(obj), 1)

\* dict.get(key, default) on the parsed object; a repeated key keeps its
\* last value
get(result, key, default) ==
    LET at == {i \in 1..Len(result) : result[i].k = key}
    IN  IF at = {} THEN default ELSE result[Max(at)].v

\* The construction with only importance_score coerced strictly, the other
\* two numeric fields taken as they come
CoercionErrorImportanceOnly(result) ==
    FloatRaises(get(result, "importance_score", JNum(50)))

\* One of the three float(...) calls of the EmailScore construction raises
CoercionError(result) ==
    \/ FloatRaises(get(result, "importance_score", JNum(50)))
    \/ FloatRaises(get(result, "spam_score", JNum(0)))
    \/ FloatRaises(get(result, "confidence", JNum(5)))

\* return EmailScore(...) of the try block
EmailScore(result) ==
    [importance_score |-> ToFloat(get(result, "importance_score", JNum(50))),
     spam_score |-> ToFloat(get(result, "spam_score", JNum(0))),
     category |-> get(result, "category", JStr("unknown")),
     reasoning |-> get(result, "reasoning", JStr("No reasoning provided")),
     confidence |-> ToFloat(get(result, "confidence", JNum(5)))]

\* The except block, had it kept the dataclass default confidence of 0.5
FallbackScoreDefaultConfidence(cause) ==
    [importance_score |-> Flt(50),
     spam_score |-> Flt(0),
     category |-> JStr("unknown"),
     reasoning |-> JStr(cause),
     confidence |-> Flt(5)]

\* return EmailScore(...) of the except block
FallbackScore(cause) ==
    [importance_score |-> Flt(50),
     spam_score |-> Flt(0),
     category |-> JStr("unknown"),
     reasoning |-> JStr(cause),
     confidence |-> Flt(1)]

\* The text the regular expression is run on
Reduced(text) == RemoveCodeBlocks(RemoveThinking(strip(text)))

\* The exception raised from the regular expression on, given the text r it
\* is run on; "" when the EmailScore is built
ScanError(r) ==
    IF FirstJsonMatch(r) = <<>>
    THEN "Error during scoring: No JSON found in model response"
    ELSE IF JsonDecodeError(FirstJsonMatch(r))
    THEN "Error during scoring: JSONDecodeError"
    ELSE IF CoercionError(json_loads(FirstJsonMatch(r)))
    THEN "Error during scoring: could not convert to float"
    ELSE ""

\* What score_email returns once the regular expression is run on r
ScoreOfScanned(r) ==
    IF ScanError(r) # "" THEN FallbackScore(ScanError(r))
    ELSE EmailScore(json_loads(FirstJsonMatch(r)))

\* The exception the try block ends in, "" when it returns normally.  A
\* completion is [kind, text]: the call raised, the message content is
\* None, or the content is text.
ScoringError(c) ==
    IF c.kind = "raise" THEN "Error during scoring: connection error"
    ELSE IF c.kind = "none" THEN "Error during scoring: NoneType has no strip"
    ELSE IF strip(c.text) = <<>>
    THEN "Error during scoring: Empty response from model"
    ELSE ScanError(Reduced(c.text))

\* score_email raises to its caller: never, the whole body is inside
\* try ... except Exception
score_email_raises(c) == FALSE

score_email(c) ==
    IF ScoringError(c) # ""
    THEN FallbackScore(ScoringError(c))
    ELSE ScoreOfScanned(Reduced(c.text))

----------------------------------------------------------------------------
(* EmailScoringSystem._apply_scoring_labels and GmailManager.apply_label.  *)

ORDERS_SHIPPING == "EmailScorer/Orders-Shipping"
HIGH_IMPORTANCE == "EmailScorer/High-Importance"
MEDIUM_IMPORTANCE == "EmailScorer/Medium-Importance"
LOW_IMPORTANCE == "EmailScorer/Low-Importance"
LIKELY_SPAM == "EmailScorer/Likely-Spam"
NEEDS_REVIEW == "EmailScorer/Needs-Review"

TierLabels == {HIGH_IMPORTANCE, MEDIUM_IMPORTANCE, LOW_IMPORTANCE}

DecisionLabels ==
    {ORDERS_SHIPPING, LIKELY_SPAM, NEEDS_REVIEW} \cup TierLabels

\* required_labels of GmailManager._setup_labels
RequiredLabels ==
    DecisionLabels \cup {"EmailScorer/Training-Data/Correct",
                         "EmailScorer/Training-Data/Incorrect"}

Range(seq) == {seq[i] : i \in 1..Len(seq)}

\* if score.category == 'orders'
OrdersRule(s) ==
    IF s.category = JStr("orders") THEN <<ORDERS_SHIPPING>> ELSE <<>>

\* The importance rule with a strict comparison at the high threshold
ImportanceRuleStrictHigh(s) ==
    IF ~s.importance_score.nan /\ s.importance_score.v > 80
    THEN <<HIGH_IMPORTANCE>>
    ELSE IF Ge(s.importance_score, Flt(50)) THEN <<MEDIUM_IMPORTANCE>>
    ELSE <<LOW_IMPORTANCE>>

\* The importance rule with a strict comparison at the medium threshold
ImportanceRuleStrictMedium(s) ==
    IF Ge(s.importance_score, Flt(80)) THEN <<HIGH_IMPORTANCE>>
    ELSE IF ~s.importance_score.nan /\ s.importance_score.v > 50
    THEN <<MEDIUM_IMPORTANCE>>
    ELSE <<LOW_IMPORTANCE>>

\* if score.importance_score >= 8 / elif >= 5 / else
ImportanceRule(s) ==
    IF Ge(s.importance_score, Flt(80)) THEN <<HIGH_IMPORTANCE>>
    ELSE IF Ge(s.importance_score, Flt(50)) THEN <<MEDIUM_IMPORTANCE>>
    ELSE <<LOW_IMPORTANCE>>

\* if score.spam_score >= 7
SpamRule(s) ==
    IF Ge(s.spam_score, Flt(70)) THEN <<LIKELY_SPAM>> ELSE <<>>

\* if score.confidence < 0.6
ReviewRule(s) ==
    IF Lt(s.confidence, Flt(6)) THEN <<NEEDS_REVIEW>> ELSE <<>>

\* The rules with the spam rule made a further branch of the importance
\* chain, tried only below the high threshold
DecidedLabelsSpamInChain(s) ==
    OrdersRule(s) \o ImportanceRule(s)
      \o (IF Ge(s.importance_score, Flt(80)) THEN <<>> ELSE SpamRule(s))
      \o ReviewRule(s)

\* The rules with the review test moved in front of the others
DecidedLabelsReviewFirst(s) ==
    ReviewRule(s) \o OrdersRule(s) \o ImportanceRule(s) \o SpamRule(s)

\* The apply_label calls _apply_scoring_labels makes, in order
DecidedLabels(s) ==
    OrdersRule(s) \o ImportanceRule(s) \o SpamRule(s) \o ReviewRule(s)

\* GmailManager.apply_label: known is self.labels, up the label names whose
\* messages().modify call does not raise
apply_label(known, up, label_name) ==
    IF label_name \notin known THEN FALSE
    ELSE label_name \in up

\* apply_label with the messages().modify call outside any try: the
\* exception of a failed call reaches the caller
apply_label_raises_uncaught(known, up, label_name) ==
    label_name \in known /\ label_name \notin up

\* apply_label raises to its caller: never, the modify call is inside
\* try ... except Exception
apply_label_raises(known, up, label_name) == FALSE

\* The calls made when the first call that returns False ends the function
ApplyLabelCallsUntilFailure(known, up, s) ==
    LET decided == DecidedLabels(s)
        failed == {i \in 1..Len(decided) : ~apply_label(known, up, decided[i])}
        n == IF failed = {} THEN Len(decided) ELSE Min(failed)
    IN  [i \in 1..n |->
            [label |-> decided[i], ok |-> apply_label(known, up, decided[i])]]

\* The apply_label calls of _apply_scoring_labels with their return values
ApplyLabelCalls(known, up, s) ==
    [i \in 1..Len(DecidedLabels(s)) |->
        [label |-> DecidedLabels(s)[i],
         ok |-> apply_label(known, up, DecidedLabels(s)[i])]]

\* The labels_applied list _apply_scoring_labels returns: each decided
\* label is appended when its apply_label call returned True
RECURSIVE AppendApplied(_, _, _, _)
AppendApplied(known, up, decided, i) ==
    IF i > Len(decided) THEN <<>>
    ELSE (IF apply_label(known, up, decided[i]) THEN <<decided[i]>> ELSE <<>>)
           \o AppendApplied(known, up, decided, i + 1)

apply_scoring_labels(known, up, s) ==
    AppendApplied(known, up, DecidedLabels(s), 1)

\* config.py: IMPORTANCE_THRESHOLDS, SPAM_THRESHOLD, CONFIDENCE_THRESHOLD
DefaultConfig ==
    [high |-> 80, medium |-> 50, spam |-> 70, confidence |-> 6]

----------------------------------------------------------------------------
(* Inputs: the completions the model may return.                           *)

IMPORTANCE == "importance_score"
SPAM == "spam_score"
CATEGORY == "category"
REASONING == "reasoning"
CONFIDENCE == "confidence"

RECURSIVE Flatten(_)
Flatten(segs) ==
    IF segs = <<>> THEN <<>> ELSE Head(segs) \o Flatten(Tail(segs))

\* Two well-formed objects that differ in every label they lead to, and an
\* object with a nested object in it
ObjectA == <<LBRACE, Member(IMPORTANCE, JNum(80)),
             Member(CONFIDENCE, JNum(9)), RBRACE>>
ObjectB == <<LBRACE, Member(SPAM, JNum(70)),
             Member(CATEGORY, JStr("orders")), RBRACE>>
ObjectNested == <<LBRACE, OBJKEY, LBRACE, RBRACE,
                  Member(IMPORTANCE, JNum(120)), RBRACE>>

Segments ==
    {<<THINK_OPEN>>, <<THINK_CLOSE>>, <<FENCE_JSON>>, <<FENCE>>, <<LBRACE>>,
     <<RBRACE>>, <<WS>>, <<PROSE>>, ObjectA, ObjectB, ObjectNested}

\* Texts of at most MaxSegs segments
StructuredTexts ==
    {Flatten(segs) : segs \in UNION {[1..n -> Segments] : n \in 0..MaxSegs}}

\* Objects with each recognised key absent or bound to one of a few values
ImportanceValues ==
    {JNum(0 - 10), JNum(49), JNum(50), JNum(65), JNum(80), JNum(120), JNaN,
     JStr("high")}
SpamValues == {JNum(69), JNum(70), JNull}
CategoryValues == {JStr("orders"), JStr("work"), JNum(70), JNull}
ConfidenceValues == {JNum(6), JNum(8), JNumStr(3), JStr("high")}
ReasoningValues == {JStr("because")}

Opt(key, values) == {<<>>} \cup {<<Member(key, v)>> : v \in values}

ObjectTexts ==
    {<<LBRACE>> \o i \o sp \o c \o r \o cf \o <<RBRACE>> :
        i \in Opt(IMPORTANCE, ImportanceValues),
        sp \in Opt(SPAM, SpamValues),
        c \in Opt(CATEGORY, CategoryValues),
        r \in Opt(REASONING, ReasoningValues),
        cf \in Opt(CONFIDENCE, ConfidenceValues)}

Text(t) == [kind |-> "text", text |-> t]
Raised == [kind |-> "raise", text |-> <<>>]
NoContent == [kind |-> "none", text |-> <<>>]
Consumed == [kind |-> "consumed", text |-> <<>>]

CompletionInputs ==
    {Raised, NoContent} \cup {Text(t) : t \in StructuredTexts \cup ObjectTexts}

\* config.py as the operator may have edited it
OverriddenConfig ==
    [high |-> 90, medium |-> 60, spam |-> 50, confidence |-> 9]

ConfigChoices == {DefaultConfig, OverriddenConfig}

NoScore ==
    [importance_score |-> NaN, spam_score |-> NaN, category |-> JNull,
     reasoning |-> JNull, confidence |-> NaN]

----------------------------------------------------------------------------
(* The system right after EmailScoringSystem() is constructed.             *)

MsgIds == {"m1", "m2"}

\* get_performance_stats has not been called
NoStats == [raised |-> FALSE, called |-> FALSE]

Constructed ==
    /\ email_scores = <<>>
    /\ processing_state = <<>>
    /\ mailbox = [m \in MsgIds |-> {}]
    /\ emails = <<>>
    /\ idx = 0
    /\ pc = "idle"
    /\ handled = <<>>
    /\ now = 0
    /\ run_start = 0
    /\ runs = 0
    /\ stats = NoStats

----------------------------------------------------------------------------
(* Scoring one message: score_email, then _apply_scoring_labels.           *)

InitScore ==
    /\ Constructed
    /\ skip_processed_emails = TRUE
    /\ labels = RequiredLabels
    /\ config \in ConfigChoices
    /\ completion \in CompletionInputs
    /\ phase = "input"
    /\ score = NoScore
    /\ attempted = <<>>
    /\ labels_applied = <<>>

ScoreEmail ==
    /\ phase = "input"
    /\ score' = score_email(completion)
    /\ phase' = "scored"
    /\ UNCHANGED <<completion, attempted, labels_applied, config>>
    /\ UNCHANGED systemVars

ApplyScoringLabels ==
    /\ phase = "scored"
    /\ \E up \in SUBSET Range(DecidedLabels(score)) :
          /\ attempted' = ApplyLabelCalls(labels, up, score)
          /\ labels_applied' = apply_scoring_labels(labels, up, score)
    /\ phase' = "labeled"
    /\ completion' = Consumed
    /\ UNCHANGED <<score, config>>
    /\ UNCHANGED systemVars

NextScore == ScoreEmail \/ ApplyScoringLabels

SpecScore == InitScore /\ [][NextScore]_vars

----------------------------------------------------------------------------
(* Properties of score_email and of the label decision (SpecScore).        *)

IsFallback(s) ==
    /\ s.importance_score = Flt(50)
    /\ s.spam_score = Flt(0)
    /\ s.category = JStr("unknown")
    /\ s.confidence = Flt(1)

\* The text is one object: braces around members only
IsPlainObject(t) ==
    /\ Len(t) >= 2
    /\ t[1] = LBRACE
    /\ t[Len(t)] = RBRACE
    /\ \A i \in 2..(Len(t) - 1) : t[i].t = "pair"

NumericKeys == {IMPORTANCE, SPAM, CONFIDENCE}

\* The failure cases of the completion, stated on the completion itself
CallRaised(c) == c.kind \in {"raise", "none"}

EmptyOrWhitespace(c) ==
    c.kind = "text" /\ \A i \in 1..Len(c.text) : c.text[i] = WS

NoBraceObject(c) ==
    /\ c.kind = "text"
    /\ ~\E i, j \in 1..Len(c.text) :
           i < j /\ c.text[i] = LBRACE /\ c.text[j] = RBRACE

InvalidJson(c) ==
    /\ c.kind = "text"
    /\ Len(c.text) >= 3
    /\ c.text[1] = LBRACE
    /\ c.text[Len(c.text)] = RBRACE
    /\ \A i \in 2..(Len(c.text) - 1) : c.text[i] \in {PROSE, WS}
    /\ \E i \in 2..(Len(c.text) - 1) : c.text[i] = PROSE

NonNumericField(c) ==
    /\ c.kind = "text"
    /\ IsPlainObject(c.text)
    /\ \E i \in 1..Len(c.text) :
          /\ c.text[i].k \in NumericKeys
          /\ c.text[i].v.ty \in {"str", "null"}

\* C1: whenever the completion call raised, or returned empty or
\* whitespace-only text, text without a {...} object, structurally invalid
\* JSON, or an object with a numeric field that is not a number, score_email
\* has returned the fallback score 5.0 / 0.0 / "unknown" / 0.1.
C1_FailureGivesFallback ==
    (phase = "scored"
       /\ (\/ CallRaised(completion)
           \/ EmptyOrWhitespace(completion)
           \/ NoBraceObject(completion)
           \/ InvalidJson(completion)
           \/ NonNumericField(completion)))
      => IsFallback(score)

C1_Witness ==
    /\ phase = "scored"
    /\ NonNumericField(completion)
    /\ \E i \in 1..Len(completion.text) :
          completion.text[i] = Member(CATEGORY, JStr("orders"))
    /\ IsFallback(score)

\* The labels of the apply_label calls, in call order
AttemptedLabels == [i \in 1..Len(attempted) |-> attempted[i].label]

Attempted == Range(AttemptedLabels)

TiersAttempted == {i \in 1..Len(attempted) : attempted[i].label \in TierLabels}

\* C2 as claimed: exactly one tier label is attempted; High iff
\* importance >= 8, Medium iff 5 <= importance < 8, Low iff importance < 5.
C2_TierAsClaimed ==
    phase = "labeled" =>
      /\ Cardinality(TiersAttempted) = 1
      /\ (HIGH_IMPORTANCE \in Attempted)
            <=> Ge(score.importance_score, Flt(80))
      /\ (MEDIUM_IMPORTANCE \in Attempted)
            <=> (Ge(score.importance_score, Flt(50))
                   /\ Lt(score.importance_score, Flt(80)))
      /\ (LOW_IMPORTANCE \in Attempted)
            <=> Lt(score.importance_score, Flt(50))

\* C2 amended: exactly one tier label is attempted; High iff
\* importance >= 8, Medium iff 5 <= importance < 8, Low in every other case,
\* that is when importance < 5 or importance is not-a-number.
C2_ExactlyOneTier ==
    phase = "labeled" =>
      /\ Cardinality(TiersAttempted) = 1
      /\ (HIGH_IMPORTANCE \in Attempted)
            <=> Ge(score.importance_score, Flt(80))
      /\ (MEDIUM_IMPORTANCE \in Attempted)
            <=> (Ge(score.importance_score, Flt(50))
                   /\ Lt(score.importance_score, Flt(80)))
      /\ (LOW_IMPORTANCE \in Attempted)
            <=> (Lt(score.importance_score, Flt(50))
                   \/ score.importance_score.nan)

C2_Witness ==
    /\ phase = "labeled"
    /\ score.importance_score.nan
    /\ Cardinality(TiersAttempted) = 1
    /\ LOW_IMPORTANCE \in Attempted

ObjectScores == {score_email(Text(t)) : t \in ObjectTexts}

\* Every combination of the orders, spam and review rules occurs with
\* every tier among the scores of the enumerated objects
AllCombinationsOccur ==
    \A tier \in TierLabels : \A o, sp, r \in BOOLEAN :
        \E s \in ObjectScores :
            /\ tier \in Range(DecidedLabels(s))
            /\ (ORDERS_SHIPPING \in Range(DecidedLabels(s))) <=> o
            /\ (LIKELY_SPAM \in Range(DecidedLabels(s))) <=> sp
            /\ (NEEDS_REVIEW \in Range(DecidedLabels(s))) <=> r

\* C3: Orders-Shipping is attempted iff category == "orders", Likely-Spam
\* iff spam_score >= 7, Needs-Review iff confidence < 0.6, and every
\* combination of the three occurs together with every tier.
C3_IndependentRules ==
    /\ phase = "labeled" =>
         /\ (ORDERS_SHIPPING \in Attempted)
               <=> (score.category = JStr("orders"))
         /\ (LIKELY_SPAM \in Attempted)
               <=> Ge(score.spam_score, Flt(70))
         /\ (NEEDS_REVIEW \in Attempted)
               <=> Lt(score.confidence, Flt(6))
    /\ AllCombinationsOccur

C3_Witness ==
    /\ phase = "labeled"
    /\ Attempted =
          {ORDERS_SHIPPING, HIGH_IMPORTANCE, LIKELY_SPAM, NEEDS_REVIEW}

ScoringErrors ==
    {"Error during scoring: connection error",
     "Error during scoring: NoneType has no strip",
     "Error during scoring: Empty response from model",
     "Error during scoring: No JSON found in model response",
     "Error during scoring: JSONDecodeError",
     "Error during scoring: could not convert to float"}

\* The score in hand came out of the except block of score_email
EndedInFallback == score.reasoning.s \in ScoringErrors

\* C4: when scoring ended in the fallback score, the labels decided include
\* Needs-Review and Medium-Importance and none of High-Importance,
\* Low-Importance, Likely-Spam.
C4_FallbackRoutedToReview ==
    (phase = "labeled" /\ EndedInFallback) =>
      /\ NEEDS_REVIEW \in Attempted
      /\ MEDIUM_IMPORTANCE \in Attempted
      /\ Attempted \cap
            {HIGH_IMPORTANCE, LOW_IMPORTANCE, LIKELY_SPAM} = {}

C4_Witness ==
    /\ phase = "labeled"
    /\ score.reasoning = JStr("Error during scoring: JSONDecodeError")
    /\ AttemptedLabels = <<MEDIUM_IMPORTANCE, NEEDS_REVIEW>>

\* The decision the configuration surface describes
ConfigDecided(cfg, s) ==
    (IF s.category = JStr("orders") THEN <<ORDERS_SHIPPING>> ELSE <<>>)
      \o (IF Ge(s.importance_score, Flt(cfg.high)) THEN <<HIGH_IMPORTANCE>>
          ELSE IF Ge(s.importance_score, Flt(cfg.medium))
               THEN <<MEDIUM_IMPORTANCE>>
          ELSE <<LOW_IMPORTANCE>>)
      \o (IF Ge(s.spam_score, Flt(cfg.spam)) THEN <<LIKELY_SPAM>> ELSE <<>>)
      \o (IF Lt(s.confidence, Flt(cfg.confidence)) THEN <<NEEDS_REVIEW>>
          ELSE <<>>)

\* C10: the label decision uses the thresholds of config.py, so that a
\* changed threshold moves the tier, spam or review boundary.
C10_ThresholdsFromConfig ==
    phase = "labeled" => AttemptedLabels = ConfigDecided(config, score)

----------------------------------------------------------------------------
(* EmailDatabase: the email_scores table and the processing_state row.     *)

\* A row of email_scores.  labels_applied is stored as ','.join(list); no
\* label name holds a comma, so the stored text and the list determine each
\* other and the row keeps the list.
Row(email_id, s, applied, t) ==
    [email_id |-> email_id,
     date_processed |-> t,
     importance_score |-> s.importance_score,
     spam_score |-> s.spam_score,
     category |-> s.category,
     reasoning |-> s.reasoning,
     confidence |-> s.confidence,
     labels_applied |-> applied]

\* A plain INSERT into a table without the UNIQUE constraint on email_id
save_score_append(table, email_id, s, applied, t) ==
    Append(table, Row(email_id, s, applied, t))

\* EmailDatabase.save_score: INSERT OR REPLACE on the UNIQUE email_id deletes
\* the row in conflict and inserts the new row
save_score(table, email_id, s, applied, t) ==
    LET Other(r) == r.email_id # email_id
    IN  Append(SelectSeq(table, Other), Row(email_id, s, applied, t))

\* The existence check looking only at the row saved last
is_email_processed_last_row(table, email_id) ==
    table # <<>> /\ table[Len(table)].email_id = email_id

\* EmailDatabase.is_email_processed
is_email_processed(table, email_id) ==
    \E i \in 1..Len(table) : table[i].email_id = email_id

\* EmailDatabase.update_last_processed_time: INSERT OR REPLACE of the one row
update_last_processed_time(state, t) == <<t>>

----------------------------------------------------------------------------------------------------------------------------------------
(* EmailScoringSystem.process_emails.                                      *)

\* Lists of distinct messages a fetch may return; the empty list is also
\* what get_recent_emails returns when the listing raised
FetchResults ==
    {f \in UNION {[1..n -> MsgIds] : n \in 0..MaxEmails} :
        \A i, j \in 1..Len(f) : i # j => f[i] # f[j]}

\* The completions the model returns while the system runs: the call
\* raises, the text holds no JSON, the text is a well-formed object
SystemCompletions == {Raised, Text(<<PROSE>>), Text(ObjectA)}

\* The outcomes of the messages().modify calls for one message: every call
\* succeeds, every call raises, or the calls for one label raise
ModifyOutcomes(decided) ==
    {Range(decided), {}} \cup {Range(decided) \ {l} : l \in Range(decided)}

\* The position of the loop after message i of n: the body ran to its end,
\* hit the continue of the skip, or raised into except Exception: continue
LoopAfter(outcome, i, n) == i + 1

\* datetime.now() moves on
Tick ==
    /\ now < MaxTime
    /\ now' = now + 1
    /\ UNCHANGED <<labels, email_scores, processing_state, mailbox, emails,
                   idx, pc, skip_processed_emails, handled, run_start, runs>>
    /\ UNCHANGED <<scoreVars, stats>>

\* main() with or without --process-all, then process_emails up to the loop
StartRun ==
    /\ pc = "idle"
    /\ runs < MaxRuns
    /\ \E process_all \in BOOLEAN, fetched \in FetchResults :
          /\ fetched # <<>>
          /\ skip_processed_emails' = ~process_all
          /\ emails' = fetched
    /\ idx' = 1
    /\ handled' = <<>>
    /\ run_start' = now
    /\ runs' = runs + 1
    /\ pc' = "loop"
    /\ UNCHANGED <<labels, email_scores, processing_state, mailbox, now>>
    /\ UNCHANGED <<scoreVars, stats>>

\* process_emails when the fetch returned nothing: "No new emails", return
EmptyRun ==
    /\ pc = "idle"
    /\ runs < MaxRuns
    /\ runs' = runs + 1
    /\ UNCHANGED <<labels, email_scores, processing_state, mailbox, emails,
                   idx, pc, skip_processed_emails, handled, now, run_start>>
    /\ UNCHANGED <<scoreVars, stats>>

InLoop == pc = "loop" /\ idx <= Len(emails)

\* One iteration: the message is already in the ledger and is skipped
SkipProcessed ==
    /\ InLoop
    /\ skip_processed_emails
    /\ is_email_processed(email_scores, emails[idx])
    /\ handled' = Append(handled, "skipped")
    /\ idx' = LoopAfter("skipped", idx, Len(emails))
    /\ UNCHANGED <<labels, email_scores, processing_state, mailbox, emails,
                   pc, skip_processed_emails, now, run_start, runs>>
    /\ UNCHANGED <<scoreVars, stats>>

\* The body of the loop raises before save_score is reached
BodyRaises(c, up) ==
    \/ score_email_raises(c)
    \/ \E l \in Range(DecidedLabels(score_email(c))) :
          apply_label_raises(labels, up, l)

\* The body raised: the except clause logs, nothing is saved, the loop goes on
Caught ==
    /\ handled' = Append(handled, "error")
    /\ idx' = LoopAfter("error", idx, Len(emails))
    /\ UNCHANGED <<completion, score, phase, attempted, labels_applied,
                   mailbox, email_scores>>

\* score_email and _apply_scoring_labels for emails[idx]
ScoreAndLabel(c, up) ==
    /\ score' = score_email(c)
    /\ attempted' = ApplyLabelCalls(labels, up, score_email(c))
    /\ labels_applied' = apply_scoring_labels(labels, up, score_email(c))
    /\ mailbox' = [mailbox EXCEPT
                      ![emails[idx]] = @ \cup Range(labels_applied')]
    /\ completion' = Consumed
    /\ phase' = "labeled"

ToProcess ==
    /\ InLoop
    /\ ~(skip_processed_emails
           /\ is_email_processed(email_scores, emails[idx]))

\* One iteration: the message is scored, labelled and saved
ProcessMessage ==
    /\ ToProcess
    /\ \E c \in SystemCompletions :
         \E up \in ModifyOutcomes(DecidedLabels(score_email(c))) :
            IF BodyRaises(c, up) THEN Caught
            ELSE /\ ScoreAndLabel(c, up)
                 /\ email_scores' =
                       save_score(email_scores, emails[idx], score',
                                  labels_applied', now)
                 /\ handled' = Append(handled, "saved")
                 /\ idx' = LoopAfter("saved", idx, Len(emails))
    /\ UNCHANGED <<labels, processing_state, emails, pc,
                   skip_processed_emails, now, run_start, runs, config,
                   stats>>

\* One iteration: the message is scored and labelled, then save_score
\* raises (the database is locked, the disk is full); the except clause
\* logs and the loop goes on
SaveFails ==
    /\ ToProcess
    /\ \E c \in SystemCompletions :
         \E up \in ModifyOutcomes(DecidedLabels(score_email(c))) :
            /\ ~BodyRaises(c, up)
            /\ ScoreAndLabel(c, up)
    /\ email_scores' = email_scores
    /\ handled' = Append(handled, "save_failed")
    /\ idx' = LoopAfter("save_failed", idx, Len(emails))
    /\ UNCHANGED <<labels, processing_state, emails, pc,
                   skip_processed_emails, now, run_start, runs, config,
                   stats>>

\* After the loop: update_last_processed_time(datetime.now()) and return;
\* the locals of the call are gone
EndRun ==
    /\ pc = "loop"
    /\ idx > Len(emails)
    /\ processing_state' = update_last_processed_time(processing_state, now)
    /\ pc' = "idle"
    /\ emails' = <<>>
    /\ idx' = 0
    /\ handled' = <<>>
    /\ run_start' = 0
    /\ skip_processed_emails' = TRUE
    /\ completion' = Consumed
    /\ phase' = "input"
    /\ score' = NoScore
    /\ attempted' = <<>>
    /\ labels_applied' = <<>>
    /\ UNCHANGED <<labels, email_scores, mailbox, now, runs, config, stats>>

\* What an earlier invocation of main left behind in email_scores.db and in
\* the mailbox: nothing, or message m1 scored from a well-formed completion,
\* labelled and saved at time 0
EarlierScore == score_email(Text(ObjectA))

Fresh ==
    /\ email_scores = <<>>
    /\ processing_state = <<>>
    /\ mailbox = [m \in MsgIds |-> {}]

AfterEarlierRun ==
    /\ email_scores =
          save_score(<<>>, "m1", EarlierScore,
                     apply_scoring_labels(RequiredLabels,
                                          Range(DecidedLabels(EarlierScore)),
                                          EarlierScore), 0)
    /\ processing_state = update_last_processed_time(<<>>, 0)
    /\ mailbox = [m \in MsgIds |->
                     IF m = "m1" THEN Range(DecidedLabels(EarlierScore))
                     ELSE {}]

Init ==
    /\ Fresh \/ AfterEarlierRun
    /\ emails = <<>>
    /\ idx = 0
    /\ pc = "idle"
    /\ handled = <<>>
    /\ now = 0
    /\ run_start = 0
    /\ runs = 0
    /\ stats = NoStats
    /\ skip_processed_emails = TRUE
    /\ labels \in {RequiredLabels, RequiredLabels \ {NEEDS_REVIEW}}
    /\ config = DefaultConfig
    /\ completion = Consumed
    /\ phase = "input"
    /\ score = NoScore
    /\ attempted = <<>>
    /\ labels_applied = <<>>

LoopStep == SkipProcessed \/ ProcessMessage \/ SaveFails \/ EndRun

Next == Tick \/ StartRun \/ EmptyRun \/ LoopStep

Spec == Init /\ [][Next]_vars

\* The loop is sequential code: each call it makes returns or raises, so a
\* run that has started goes on to its end
FairSpec == Spec /\ WF_vars(LoopStep)

----------------------------------------------------------------------------
(* Properties of process_emails, of the ledger and of the mailbox (Spec).  *)

\* The message the loop handled last, while its locals are still in scope
JustHandled(outcome) ==
    /\ pc = "loop"
    /\ handled # <<>>
    /\ handled[Len(handled)] = outcome

InHand == emails[Len(handled)]

RowsOf(table, email_id) ==
    {i \in 1..Len(table) : table[i].email_id = email_id}

\* The labels of the calls that returned True, in call order
RECURSIVE Succeeded(_, _)
Succeeded(calls, i) ==
    IF i > Len(calls) THEN <<>>
    ELSE (IF calls[i].ok THEN <<calls[i].label>> ELSE <<>>)
           \o Succeeded(calls, i + 1)

\* C5: for the message just handled, every decided label was attempted
\* whatever the earlier calls returned, labels_applied is the decided labels
\* whose call succeeded, in decided order, each of them is on the message,
\* and that list is the one the ledger row holds.
C5_AllAttemptedSucceededRecorded ==
    (JustHandled("saved") \/ JustHandled("save_failed")) =>
      /\ AttemptedLabels = DecidedLabels(score)
      /\ labels_applied = Succeeded(attempted, 1)
      /\ Range(labels_applied) \subseteq mailbox[InHand]
      /\ JustHandled("saved") =>
            \A i \in RowsOf(email_scores, InHand) :
                email_scores[i].labels_applied = labels_applied

C5_Witness ==
    /\ JustHandled("saved")
    /\ Len(attempted) = 2
    /\ ~attempted[1].ok
    /\ attempted[2].ok
    /\ labels_applied = <<NEEDS_REVIEW>>
    /\ \E i \in RowsOf(email_scores, InHand) :
          email_scores[i].labels_applied = <<NEEDS_REVIEW>>

OneRowPerMessage ==
    \A i, j \in 1..Len(email_scores) :
        email_scores[i].email_id = email_scores[j].email_id => i = j

LatestSaveWins ==
    JustHandled("saved") =>
      \E i \in RowsOf(email_scores, InHand) :
          /\ email_scores[i].importance_score = score.importance_score
          /\ email_scores[i].spam_score = score.spam_score
          /\ email_scores[i].category = score.category
          /\ email_scores[i].reasoning = score.reasoning
          /\ email_scores[i].confidence = score.confidence
          /\ email_scores[i].labels_applied = labels_applied

RowSetOf(table, email_id) == {table[i] : i \in RowsOf(table, email_id)}

\* A step changes the rows of no message but the one it saves
OtherRowsKept ==
    \A m \in MsgIds :
        \/ InLoop /\ emails[idx] = m /\ handled' = Append(handled, "saved")
        \/ RowSetOf(email_scores', m) = RowSetOf(email_scores, m)

\* C6: the ledger holds at most one row per message identifier, the row of
\* the message just saved holds the score fields and labels_applied of that
\* save, and a save leaves the rows of the other identifiers as they were.
C6_Upsert ==
    /\ [](OneRowPerMessage /\ LatestSaveWins)
    /\ [][OtherRowsKept]_vars

\* m1 had a row from the earlier run and has been saved again with another
\* score
C6_Witness ==
    /\ JustHandled("saved")
    /\ InHand = "m1"
    /\ HIGH_IMPORTANCE \in mailbox["m1"]
    /\ score.importance_score = Flt(50)
    /\ Cardinality(RowsOf(email_scores, "m1")) = 1
    /\ Cardinality(RowsOf(email_scores, "m2")) = 1

\* C7: a failure of save_score ends the run; no later message of the run
\* is handled after it.
C7_SaveFailureEndsRun ==
    \A i \in 1..Len(handled) :
        handled[i] = "save_failed" => i = Len(handled)

NoPersistenceFailure ==
    \A i \in 1..Len(handled) : handled[i] # "save_failed"

LoopOver == pc = "loop" /\ idx > Len(emails)

\* Every fetched message was skipped as already in the ledger, or scored,
\* labelled and saved
EveryMessageHandled ==
    /\ Len(handled) = Len(emails)
    /\ \A i \in 1..Len(emails) :
          /\ handled[i] \in {"skipped", "saved"}
          /\ RowsOf(email_scores, emails[i]) # {}
          /\ \A r \in RowSetOf(email_scores, emails[i]) :
                Range(r.labels_applied) \subseteq mailbox[emails[i]]

\* C8: in a run without persistence failure, whatever the completions and
\* the label calls did, the loop reaches its end with every fetched message
\* skipped or scored, labelled and saved; and every run that has started
\* ends.
C8_BatchNotAborted ==
    /\ []((LoopOver /\ NoPersistenceFailure) => EveryMessageHandled)
    /\ ((pc = "loop") ~> (pc = "idle"))

\* Two messages: the completion call raised for the first and one of its
\* label calls failed, the second was still scored and saved
C8_Witness ==
    /\ LoopOver
    /\ Len(emails) = 2
    /\ handled = <<"saved", "saved">>
    /\ \E i \in RowsOf(email_scores, emails[1]) :
          /\ email_scores[i].reasoning =
                JStr("Error during scoring: connection error")
          /\ email_scores[i].labels_applied = <<MEDIUM_IMPORTANCE>>
    /\ \E i \in RowsOf(email_scores, emails[2]) :
          email_scores[i].labels_applied = <<HIGH_IMPORTANCE>>

\* C9: for every message with a row, labels_applied is exactly the set of
\* decision labels the message carries in the mailbox.
C9_LedgerMatchesMailbox ==
    \A i \in 1..Len(email_scores) :
        Range(email_scores[i].labels_applied) =
            mailbox[email_scores[i].email_id] \cap DecisionLabels

----------------------------------------------------------------------------
(* The processing_state row (Spec).                                        *)

\* The step is the return of a process_emails call that went through the
\* loop
LoopRunReturns == pc = "loop" /\ pc' = "idle"

\* The step is a whole process_emails call whose fetch returned no message
EmptyRunReturns == pc = "idle" /\ pc' = "idle" /\ runs' = runs + 1

\* C11: every process_emails run that returns, a run whose fetch returned
\* no message included, leaves in processing_state a time within that run,
\* and no other step changes processing_state.
C11_LastProcessedSetByEveryRun ==
    [][/\ LoopRunReturns =>
             /\ processing_state' # <<>>
             /\ processing_state'[1] \in run_start..now
       /\ EmptyRunReturns => processing_state' = <<now>>
       /\ processing_state' # processing_state =>
             (LoopRunReturns \/ EmptyRunReturns)]_vars

----------------------------------------------------------------------------
(* EmailDatabase.get_performance_stats.  In this part one tick of the      *)
(* clock is one day, the unit of days_back.                                *)

MaxDaysBack == 1   \* largest days_back a caller passes

\* SQLite stores a not-a-number bound to a column as NULL
IsNull(f) == f.nan

SqlNull == [ty |-> "null", n |-> 0, s |-> ""]

\* The category as the TEXT column holds it: a number becomes its decimal
\* text (here the numeral of its tenths), so the number and the string of
\* the same digits are one category; a not-a-number becomes NULL
StoredCategory(v) ==
    IF v.ty \in {"num", "numstr"} THEN JStr(ToString(v.n))
    ELSE IF v.ty = "nan" THEN SqlNull
    ELSE v

RECURSIVE Sum(_, _)
Sum(f, S) ==
    IF S = {} THEN 0
    ELSE LET x == CHOOSE y \in S : TRUE
         IN  f[x] + Sum(f, S \ {x})

RECURSIVE Product(_, _)
Product(f, S) ==
    IF S = {} THEN 1
    ELSE LET x == CHOOSE y \in S : TRUE
         IN  f[x] * Product(f, S \ {x})

\* WHERE date_processed >= since_date: the positions of the rows selected
Selected(table, since_date) ==
    {i \in 1..Len(table) : table[i].date_processed >= since_date}

\* One row of the GROUP BY category result.  AVG skips NULL and is NULL when
\* every confidence of the group is NULL; it is kept as the fraction
\* num / den of tenths.  NULL >= 7 is not true, so CASE yields NULL and
\* COUNT leaves the row out.
GroupRow(table, sel, c) ==
    LET members == {i \in sel : StoredCategory(table[i].category) = c}
        known == {i \in members : ~IsNull(table[i].confidence)}
    IN  [total_emails |-> Cardinality(members),
         avg_confidence |->
             IF known = {} THEN [null |-> TRUE, num |-> 0, den |-> 1]
             ELSE [null |-> FALSE,
                   num |-> Sum([i \in known |-> table[i].confidence.v], known),
                   den |-> Cardinality(known)],
         high_importance |->
             Cardinality({i \in members :
                             Ge(table[i].importance_score, Flt(70))}),
         likely_spam |->
             Cardinality({i \in members : Ge(table[i].spam_score, Flt(70))}),
         category |-> c,
         category_count |-> Cardinality(members)]

\* cursor.fetchall() of the query; the order of the rows changes none of the
\* sums, so the rows are kept as a set
QueryResults(table, since_date) ==
    LET sel == Selected(table, since_date)
    IN  {GroupRow(table, sel, c) :
            c \in {StoredCategory(table[i].category) : i \in sel}}

\* The avg_confidence expression without its "if results else 0": the
\* division by the zero sum raises as well
AvgRaisesUnguarded(results) ==
    \/ results = {}
    \/ \E r \in results : r.avg_confidence.null

\* The avg_confidence expression raises: r[1] * r[5] with r[1] None
AvgRaises(results) ==
    results # {} /\ \E r \in results : r.avg_confidence.null

\* sum(r[1] * r[5]) / sum(r[5]) if results else 0, as a fraction of tenths
AvgConfidence(results) ==
    IF results = {} THEN [num |-> 0, den |-> 1]
    ELSE LET dens == [r \in results |-> r.avg_confidence.den]
             terms == [r \in results |->
                          r.avg_confidence.num * r.category_count
                            * Product(dens, results \ {r})]
         IN  [num |-> Sum(terms, results),
              den |-> Product(dens, results)
                        * Sum([r \in results |-> r.category_count], results)]

\* The argument and the outcome of get_performance_stats(days_back) at time t
get_performance_stats(table, t, days_back) ==
    LET results == QueryResults(table, t - days_back)
    IN  IF AvgRaises(results)
        THEN [raised |-> TRUE, called |-> TRUE, days_back |-> days_back]
        ELSE [raised |-> FALSE, called |-> TRUE, days_back |-> days_back,
              total_processed |->
                  Sum([r \in results |-> r.category_count], results),
              avg_confidence |-> AvgConfidence(results),
              high_importance_count |->
                  Sum([r \in results |-> r.high_importance], results),
              spam_count |->
                  Sum([r \in results |-> r.likely_spam], results),
              categories |->
                  [c \in {r.category : r \in results} |->
                      (CHOOSE r \in results : r.category = c).category_count]]

\* Completions whose scores fill the ledgers the statistics are taken of
StatsCompletions ==
    {Raised, Text(ObjectA), Text(ObjectB),
     Text(<<LBRACE, Member(IMPORTANCE, JNum(70)), Member(SPAM, JNum(69)),
            Member(CATEGORY, JStr("work")), RBRACE>>),
     Text(<<LBRACE, Member(CATEGORY, JStr("work")),
            Member(CONFIDENCE, JNaN), RBRACE>>),
     Text(<<LBRACE, Member(IMPORTANCE, JNaN), Member(CATEGORY, JNull),
            RBRACE>>),
     Text(<<LBRACE, Member(CATEGORY, JNum(70)), RBRACE>>)}

\* save_score of message m scored from completion c, every label applied
Saved(table, m, c, t) ==
    save_score(table, m, score_email(c),
               apply_scoring_labels(RequiredLabels,
                                    Range(DecidedLabels(score_email(c))),
                                    score_email(c)), t)

\* The ledgers: no row, one row, or a row for each of the two messages
StatsTables ==
    {<<>>}
    \cup {Saved(<<>>, m, c, t) :
             m \in MsgIds, c \in StatsCompletions, t \in 0..MaxTime}
    \cup {Saved(Saved(<<>>, m[1], c[1], t[1]), m[2], c[2], t[2]) :
             m \in {<<"m1", "m2">>, <<"m2", "m1">>},
             c \in StatsCompletions \X StatsCompletions,
             t \in (0..MaxTime) \X (0..MaxTime)}

InitStats ==
    /\ email_scores \in StatsTables
    /\ now \in 0..MaxTime
    /\ stats = NoStats
    /\ processing_state =
          IF email_scores = <<>> THEN <<>>
          ELSE <<Max({email_scores[i].date_processed :
                         i \in 1..Len(email_scores)})>>
    /\ mailbox = [m \in MsgIds |->
                     UNION {Range(email_scores[i].labels_applied) :
                               i \in {j \in 1..Len(email_scores) :
                                         email_scores[j].email_id = m}}]
    /\ emails = <<>>
    /\ idx = 0
    /\ pc = "idle"
    /\ handled = <<>>
    /\ run_start = 0
    /\ runs = 0
    /\ skip_processed_emails = TRUE
    /\ labels = RequiredLabels
    /\ config = DefaultConfig
    /\ completion = Consumed
    /\ phase = "input"
    /\ score = NoScore
    /\ attempted = <<>>
    /\ labels_applied = <<>>

\* generate_report: one call of get_performance_stats
GetPerformanceStats ==
    /\ ~stats.called
    /\ \E days_back \in 0..MaxDaysBack :
          stats' = get_performance_stats(email_scores, now, days_back)
    /\ UNCHANGED <<scoreVars, labels, email_scores, processing_state, mailbox,
                   emails, idx, pc, skip_processed_emails, handled, now,
                   run_start, runs>>

SpecStats == InitStats /\ [][GetPerformanceStats]_vars

----------------------------------------------------------------------------
(* Properties of get_performance_stats (SpecStats).                        *)

\* The rows of the ledger inside the window of the call made
InWindow == Selected(email_scores, now - stats.days_back)

\* C12: a call of get_performance_stats whose window holds no row of the
\* ledger returns, without raising, total_processed 0, avg_confidence 0,
\* both counts 0 and an empty categories mapping, whatever rows the ledger
\* holds outside the window.
C12_EmptyWindowGivesZeros ==
    (stats.called /\ InWindow = {}) =>
        /\ ~stats.raised
        /\ stats.total_processed = 0
        /\ stats.avg_confidence.num = 0
        /\ stats.high_importance_count = 0
        /\ stats.spam_count = 0
        /\ DOMAIN stats.categories = {}

\* The call was made on a ledger with a row, of not-a-number confidence,
\* that lies outside the window
C12_Witness ==
    /\ stats.called
    /\ InWindow = {}
    /\ \E i \in 1..Len(email_scores) : IsNull(email_scores[i].confidence)
    /\ ~stats.raised
    /\ stats.total_processed = 0

\* C13: for every ledger, get_performance_stats returns total_processed as
\* the number of rows in the window, high_importance_count as the number of
\* them with importance_score >= 7, spam_count as the number with
\* spam_score >= 7, and categories as the count of rows of each category,
\* counts that sum to total_processed.
C13_StatsCountWindowRows ==
    stats.called =>
        /\ ~stats.raised
        /\ stats.total_processed = Cardinality(InWindow)
        /\ stats.high_importance_count =
              Cardinality({i \in InWindow :
                  Ge(email_scores[i].importance_score, Flt(70))})
        /\ stats.spam_count =
              Cardinality({i \in InWindow :
                  Ge(email_scores[i].spam_score, Flt(70))})
        /\ DOMAIN stats.categories =
              {StoredCategory(email_scores[i].category) : i \in InWindow}
        /\ \A c \in DOMAIN stats.categories :
              stats.categories[c] =
                  Cardinality({i \in InWindow :
                      StoredCategory(email_scores[i].category) = c})
        /\ Sum(stats.categories, DOMAIN stats.categories)
              = stats.total_processed

----------------------------------------------------------------------------
(* Properties of the interpretation of the completion text (SpecScore).    *)

\* The completion text once the thinking block is removed
AfterThinking(c) == RemoveThinking(strip(c.text))

\* The positions of the fences after the first fence tagged json
FencesAfterJsonFence(t) ==
    {i \in (find(t, FENCE_JSON) + 1)..Len(t) : HasFence(t[i])}

\* The text holds a fence tagged json and a closing fence after it
JsonFenced(c) ==
    /\ c.kind = "text"
    /\ strip(c.text) # <<>>
    /\ Has(AfterThinking(c), FENCE_JSON)
    /\ FencesAfterJsonFence(AfterThinking(c)) # {}

\* The content between the first fence tagged json and the next fence
FencedContent(t) ==
    strip(Slice(t, find(t, FENCE_JSON) + 1, Min(FencesAfterJsonFence(t))))

\* C14: when the text, after thinking removal, holds a fence tagged json
\* and a closing fence after it, the text the JSON scan is run on is the
\* content between that opening fence and the next fence, and the Score is
\* the one that content gives; nothing after the closing fence is scanned.
C14_OnlyFirstFencedBlockScanned ==
    (phase = "scored" /\ JsonFenced(completion)) =>
        /\ Reduced(completion.text) = FencedContent(AfterThinking(completion))
        /\ score = ScoreOfScanned(FencedContent(AfterThinking(completion)))

\* The text holds an opening think tag and a closing think tag after it
ThinkPair(t) ==
    \E i, j \in 1..Len(t) :
        i < j /\ t[i] = THINK_OPEN /\ t[j] = THINK_CLOSE

\* What follows the first closing think tag
AfterFirstClose(t) == strip(Slice(t, find(t, THINK_CLOSE) + 1, Len(t) + 1))

Scored(c) == phase = "scored" /\ c.kind = "text" /\ strip(c.text) # <<>>

Parses(c) ==
    /\ c.kind = "text"
    /\ strip(c.text) # <<>>
    /\ FirstJsonMatch(Reduced(c.text)) # <<>>
    /\ ~JsonDecodeError(FirstJsonMatch(Reduced(c.text)))

ParsedObject(c) == json_loads(FirstJsonMatch(Reduced(c.text)))

Present(result, key) == \E i \in 1..Len(result) : result[i].k = key

IsString(v) == v.ty \in {"str", "numstr"}

\* A numeric field: its value when present and coercible, else its default
NumberOrDefault(result, key, default) ==
    IF Present(result, key) /\ ~FloatRaises(get(result, key, default))
    THEN ToFloat(get(result, key, default))
    ELSE ToFloat(default)

\* A text field: its value when present and a string, else its default
StringOrDefault(result, key, default) ==
    IF Present(result, key) /\ IsString(get(result, key, default))
    THEN get(result, key, default)
    ELSE default

\* C16: when the extracted object parses, each field of the Score is its
\* value when the key is present and well-shaped and its own default when
\* the key is absent or of the wrong shape (5, 0, "unknown",
\* "No reasoning provided", 0.5), so the Score is never the fallback.
C16_FieldsDefaultedIndependently ==
    (phase = "scored" /\ Parses(completion)) =>
        score =
          [importance_score |->
               NumberOrDefault(ParsedObject(completion), IMPORTANCE, JNum(50)),
           spam_score |->
               NumberOrDefault(ParsedObject(completion), SPAM, JNum(0)),
           category |->
               StringOrDefault(ParsedObject(completion), CATEGORY,
                               JStr("unknown")),
           reasoning |->
               StringOrDefault(ParsedObject(completion), REASONING,
                               JStr("No reasoning provided")),
           confidence |->
               NumberOrDefault(ParsedObject(completion), CONFIDENCE, JNum(5))]

\* A numeric key of the parsed object holds a value float() rejects
Uncoercible(result) ==
    \E key \in NumericKeys :
        Present(result, key) /\ FloatRaises(get(result, key, JNum(0)))

\* C17: when the extracted object parses and one of importance_score,
\* spam_score, confidence holds a value that cannot be coerced to a number,
\* score_email returns the fallback Score with the coercion failure as its
\* reasoning: no field of the response is in it and no per-field default
\* (confidence 0.5, "No reasoning provided") is substituted.
C17_CoercionFailureIsParseFailure ==
    (phase = "scored" /\ Parses(completion)
        /\ Uncoercible(ParsedObject(completion))) =>
        /\ IsFallback(score)
        /\ score.reasoning =
              JStr("Error during scoring: could not convert to float")

\* importance 8.0, category orders and reasoning are valid, confidence is
\* the string "high": the Score is the fallback
C17_Witness ==
    /\ phase = "scored"
    /\ Parses(completion)
    /\ get(ParsedObject(completion), IMPORTANCE, JNull) = JNum(80)
    /\ get(ParsedObject(completion), CATEGORY, JNull) = JStr("orders")
    /\ get(ParsedObject(completion), REASONING, JNull) = JStr("because")
    /\ get(ParsedObject(completion), CONFIDENCE, JNull) = JStr("high")
    /\ IsFallback(score)

----------------------------------------------------------------------------
(* Order of the label decision (SpecScore).                                *)

\* The decision labels in the order the claim fixes; the three tiers share
\* the second place
FixedOrder ==
    <<ORDERS_SHIPPING, HIGH_IMPORTANCE, MEDIUM_IMPORTANCE, LOW_IMPORTANCE,
      LIKELY_SPAM, NEEDS_REVIEW>>

\* The labels of S listed in the fixed order
InFixedOrder(S) ==
    LET Chosen(l) == l \in S
    IN  SelectSeq(FixedOrder, Chosen)

\* The Score of the example: orders, 6.5, 0, 0.8
ExampleScore(s) ==
    /\ s.category = JStr("orders")
    /\ s.importance_score = Flt(65)
    /\ s.spam_score = Flt(0)
    /\ s.confidence = Flt(8)

\* C18: the list of labels attempted for a Score is the set of labels the
\* Score decides laid out in the one order Orders-Shipping, tier,
\* Likely-Spam, Needs-Review, each label once, whatever the label calls
\* returned and whatever the configuration holds, so equal Scores give equal
\* lists; for category orders, importance 6.5, spam 0, confidence 0.8 the
\* list is Orders-Shipping, Medium-Importance.
C18_DecisionInFixedOrder ==
    phase = "labeled" =>
        /\ AttemptedLabels = InFixedOrder(Range(DecidedLabels(score)))
        /\ ExampleScore(score) =>
              AttemptedLabels = <<ORDERS_SHIPPING, MEDIUM_IMPORTANCE>>

\* The example, and a Score for which all four places are taken
C18_Witness ==
    /\ phase = "labeled"
    /\ \/ ExampleScore(score) /\ Len(attempted) = 2
       \/ AttemptedLabels = <<ORDERS_SHIPPING, LOW_IMPORTANCE, LIKELY_SPAM,
                              NEEDS_REVIEW>>

----------------------------------------------------------------------------
(* Skipping of processed messages (Spec).                                  *)

\* The loop is at a message that has a row in the ledger
AtProcessed == InLoop /\ RowsOf(email_scores, emails[idx]) # {}

\* The step is the iteration of the loop for emails[idx]
Iterates == idx' # idx /\ pc' = "loop"

\* The iteration skipped the message: no completion was asked for, no label
\* call was made, the mailbox and the ledger are as they were
SkippedEntirely ==
    /\ handled' = Append(handled, "skipped")
    /\ UNCHANGED <<completion, score, phase, attempted, labels_applied>>
    /\ UNCHANGED <<mailbox, email_scores>>

\* The iteration scored the message again and, when save_score returned,
\* left the new row as the one row of the message
ScoredAgain ==
    /\ handled' # Append(handled, "skipped")
    /\ \E c \in SystemCompletions : score' = score_email(c)
    /\ Range(labels_applied') \subseteq mailbox'[emails[idx]]
    /\ handled' = Append(handled, "saved") =>
          RowSetOf(email_scores', emails[idx]) =
              {Row(emails[idx], score', labels_applied', now)}

\* C19: an iteration of the loop at a message that has a row skips it
\* entirely when skip_processed_emails is set, and scores it again and
\* replaces its row when skip_processed_emails is cleared by --process-all.
C19_SkipProcessed ==
    [][(AtProcessed /\ Iterates) =>
          IF skip_processed_emails THEN SkippedEntirely ELSE ScoredAgain]_vars

\* m1, scored High by the earlier run, has just been skipped: its row and
\* its labels are those of the earlier run
C19_Witness ==
    /\ JustHandled("skipped")
    /\ InHand = "m1"
    /\ skip_processed_emails
    /\ mailbox["m1"] = {HIGH_IMPORTANCE}
    /\ RowSetOf(email_scores, "m1") =
          {Row("m1", EarlierScore, <<HIGH_IMPORTANCE>>, 0)}

====
